---- MODULE Spec2Model ----
(***************************************************************************)
(* tele-flow (src/src/main.py): the liquidation monitor.                   *)
(*                                                                         *)
(* One asyncio event loop runs three kinds of coroutine: main(), the       *)
(* polling task monitor_loop() and one process_message() per inbound       *)
(* message.  A coroutine runs without interruption between two awaits, so  *)
(* every action below is the code between two suspension points.           *)
(*                                                                         *)
(* Time is in whole seconds (Telegram message dates are whole seconds).    *)
(* Amounts are whole USD.  A speed (USD per second) is kept as an exact    *)
(* fraction <<numerator, denominator>> in lowest terms.  An Optional       *)
(* datetime is a sequence of length 0 (None) or 1.                         *)
(***************************************************************************)
EXTENDS Integers, Sequences, FiniteSets, TLC

(***************************************************************************)
(* Bounds of the model.                                                    *)
(***************************************************************************)
\* the clock stops at MaxTime
MaxTime == 5
\* messages the channel delivers in one run
MaxMessages == 3
\* a message is dated at most MaxLag seconds before it is handled
MaxLag == 1
\* handlers that may be awaiting their single-event notification at once
MaxPending == 1
\* the event loop resumes the polling task at most MaxLate seconds late
MaxLate == 0
\* LIQUIDATION_HISTORY_LIMIT (200 in main.py:41), scaled down
HistoryLimit == 2
\* the scaled configuration of Spec (main.py:26-34 read these from the
\* environment; the defaults are below)
SmallThreshold == 3
SmallWindow == 1
SmallCooldown == 2
SmallGrace == 2
SmallInterval == 1
SmallSingleThreshold == 5

(***************************************************************************)
(* The default configuration, main.py:26-34.                               *)
(***************************************************************************)
BASE_THRESHOLD_USD_PER_SEC == 20000
ANALYSIS_WINDOW_SECONDS == 300
MONITORING_INTERVAL_SECONDS == 10
SUMMARY_COOLDOWN_SECONDS == 60
ACTIVE_IDLE_TRANSITION_GRACE_PERIOD_SECONDS == 30
SINGLE_EVENT_NOTIFICATION_THRESHOLD == 0
\* calculate_acceleration's floor on the baseline, main.py:156
ACCELERATION_FLOOR == 500
\* ACCELERATION_THRESHOLD, main.py:29
ACCELERATION_THRESHOLD == 3

DefaultConfig ==
    [threshold |-> BASE_THRESHOLD_USD_PER_SEC,
     window    |-> ANALYSIS_WINDOW_SECONDS,
     cooldown  |-> SUMMARY_COOLDOWN_SECONDS,
     grace     |-> ACTIVE_IDLE_TRANSITION_GRACE_PERIOD_SECONDS,
     interval  |-> MONITORING_INTERVAL_SECONDS,
     single    |-> SINGLE_EVENT_NOTIFICATION_THRESHOLD,
     webhook   |-> TRUE]

\* the configurations Spec starts from: DISCORD_WEBHOOK_URL set and
\* single-event notifications on, or DISCORD_WEBHOOK_URL unset
SmallConfigs ==
    {[threshold |-> SmallThreshold,
      window    |-> SmallWindow,
      cooldown  |-> SmallCooldown,
      grace     |-> SmallGrace,
      interval  |-> SmallInterval,
      single    |-> s,
      webhook   |-> w] :
          <<s, w>> \in {<<SmallSingleThreshold, TRUE>>, <<0, FALSE>>}}

\* amounts a parsed message may carry; 0 is what _parse_amount gives for
\* "$0" or for a string float() rejects
SmallAmounts == {0, 5}
DefaultAmounts == {0, 5000, 20000, 6000000}
Tickers == {"BTC"}
Directions == {"Long"}

VARIABLES
    conf,                       \* the module-level configuration
    clock,                      \* datetime.now(timezone.utc)
    inbox,                      \* liquidations the channel has still to deliver
    store,                      \* table liquidations, in id order
    state,                      \* LiquidationMonitor fields
    active_since,
    last_summary_sent,
    last_known_speed,
    prev_known_speed,
    last_above_threshold_time,
    active_period_events,
    loop_pc,                    \* where monitor_loop is
    wake,                       \* when its asyncio.sleep ends
    frame,                      \* check_and_transition's locals across the send
    main_pc,                    \* where main() is
    db_open,                    \* db_conn is open
    monitor_task,               \* the task main() created
    pending_single,             \* handlers awaiting _send_single_event_notification
    last_summary,               \* history: the last summary computed and its period
    computed_speed,             \* history: current_speed of the latest evaluation
    call,                       \* a call of one of the pure functions, alone
    ret                         \* what that call returned

monitor == <<state, active_since, last_summary_sent, last_known_speed,
             prev_known_speed, last_above_threshold_time, active_period_events>>
vars == <<conf, clock, inbox, store, state, active_since, last_summary_sent,
          last_known_speed, prev_known_speed, last_above_threshold_time,
          active_period_events, loop_pc, wake, frame, main_pc, db_open,
          monitor_task, pending_single, last_summary, computed_speed, call, ret>>

\* the variables of a pure call; no step of the running program touches them
pure == <<call, ret>>

(***************************************************************************)
(* Values.                                                                 *)
(***************************************************************************)
None == <<>>
Some(t) == <<t>>
IsNone(o) == Len(o) = 0
Value(o) == o[1]

RECURSIVE Gcd(_, _)
Gcd(a, b) == IF b = 0 THEN a ELSE Gcd(b, a % b)

\* the float a / b, b > 0, as a fraction in lowest terms
Div(a, b) == LET g == Gcd(a, b) IN IF a = 0 THEN <<0, 1>> ELSE <<a \div g, b \div g>>
Zero == <<0, 1>>
Whole(n) == <<n, 1>>
\* p >= q, p < q, p > q on fractions with positive denominators
Geq(p, q) == p[1] * q[2] >= q[1] * p[2]
Less(p, q) == ~Geq(p, q)
Greater(p, q) == Less(q, p)

RECURSIVE SumAmounts(_)
SumAmounts(events) ==
    IF events = <<>> THEN 0 ELSE Head(events).amount + SumAmounts(Tail(events))

\* the rows of s whose index is in ids, in index order
RECURSIVE KeepIds(_, _)
KeepIds(s, ids) ==
    IF s = <<>> THEN <<>>
    ELSE KeepIds(SubSeq(s, 1, Len(s) - 1), ids)
         \o (IF Len(s) \in ids THEN <<s[Len(s)]>> ELSE <<>>)

(***************************************************************************)
(* The event store: table liquidations.  A row's id is its insertion       *)
(* order, so the store is the sequence of its rows in id order.  The       *)
(* timestamp column holds the datetime as ISO text with a fixed +00:00     *)
(* offset; for such text SQLite's comparison is the comparison of the      *)
(* instants, and _to_datetime gives back the datetime it was made from.    *)
(***************************************************************************)
Event(ts, tk, dir, amt) ==
    [timestamp |-> ts, ticker |-> tk, direction |-> dir, amount |-> amt]

\* row j comes before row i in ORDER BY timestamp DESC, id DESC
Newer(rows, j, i) ==
    \/ rows[j].timestamp > rows[i].timestamp
    \/ rows[j].timestamp = rows[i].timestamp /\ j > i

\* a trim that orders by id alone
TrimStoreById(rows) ==
    KeepIds(rows, {i \in 1..Len(rows) : Len(rows) - i < HistoryLimit})

\* DELETE ... WHERE id NOT IN (SELECT id ... ORDER BY timestamp DESC, id DESC LIMIT n)
TrimStore(rows) ==
    KeepIds(rows,
        {i \in 1..Len(rows) :
            Cardinality({j \in 1..Len(rows) : Newer(rows, j, i)}) < HistoryLimit})

\* INSERT then DELETE, committed together by "with conn:"
add_liquidation(st, ev) == TrimStore(Append(st, ev))

\* r put into rows that are in ORDER BY timestamp ASC, after the rows of its
\* own timestamp
RECURSIVE InsertAsc(_, _)
InsertAsc(sorted, r) ==
    IF sorted = <<>> THEN <<r>>
    ELSE IF r.timestamp < Head(sorted).timestamp THEN <<r>> \o sorted
    ELSE <<Head(sorted)>> \o InsertAsc(Tail(sorted), r)

\* rows in ORDER BY timestamp ASC (rows of one timestamp in id order)
RECURSIVE SortAsc(_)
SortAsc(rows) ==
    IF rows = <<>> THEN <<>>
    ELSE InsertAsc(SortAsc(SubSeq(rows, 1, Len(rows) - 1)), rows[Len(rows)])

\* WHERE timestamp BETWEEN start AND end ORDER BY timestamp ASC
get_liquidations_in_timeframe(st, start_time, end_time) ==
    SortAsc(SelectSeq(st, LAMBDA r : start_time <= r.timestamp /\ r.timestamp <= end_time))

(***************************************************************************)
(* calculate_liquidation_metrics and calculate_acceleration.               *)
(***************************************************************************)
\* lines 135 and 137: speed_usd_per_sec
SpeedOver(events, window_seconds) ==
    IF window_seconds > 0 THEN Div(SumAmounts(events), window_seconds) ELSE Zero

\* a short_bias that is the complement of long_bias whatever the amounts are
ShortBiasComplement(long_bias, total_directional_amount) ==
    Div(long_bias[2] - long_bias[1], long_bias[2])

\* line 152: 1.0 - long_bias if total_directional_amount > 0 else 0
ShortBias(long_bias, total_directional_amount) ==
    IF total_directional_amount > 0
    THEN Div(long_bias[2] - long_bias[1], long_bias[2]) ELSE Zero

\* lines 134-153
calculate_liquidation_metrics(events, window_seconds) ==
    LET total_amount == SumAmounts(events)
        total_count == Len(events)
        tickers == {events[i].ticker : i \in 1..Len(events)}
        long_amount == SumAmounts(SelectSeq(events, LAMBDA e : e.direction = "Long"))
        total_directional_amount ==
            SumAmounts(SelectSeq(events, LAMBDA e : e.direction \in {"Long", "Short"}))
        long_bias == IF total_directional_amount > 0
                     THEN Div(long_amount, total_directional_amount) ELSE Zero
    IN [speed_usd_per_sec |-> SpeedOver(events, window_seconds),
        total_amount |-> total_amount,
        total_count |-> total_count,
        avg_event_amount |->
            IF total_count > 0 THEN Div(total_amount, total_count) ELSE Zero,
        dominance_info |->
            IF total_amount > 0
            THEN [t \in tickers |->
                     Div(SumAmounts(SelectSeq(events, LAMBDA e : e.ticker = t)), total_amount)]
            ELSE [t \in {} |-> Zero],
        long_bias |-> long_bias,
        short_bias |-> ShortBias(long_bias, total_directional_amount)]

\* a ratio branch taken from a baseline of exactly the floor
calculate_acceleration_from_floor(current_speed, prev_speed) ==
    IF Geq(prev_speed, Whole(ACCELERATION_FLOOR))
    THEN Div(current_speed[1] * prev_speed[2], current_speed[2] * prev_speed[1])
    ELSE IF Greater(current_speed, Zero) THEN Whole(ACCELERATION_THRESHOLD)
    ELSE Whole(1)

\* lines 155-160
calculate_acceleration(current_speed, prev_speed) ==
    IF Greater(prev_speed, Whole(ACCELERATION_FLOOR))
    THEN Div(current_speed[1] * prev_speed[2], current_speed[2] * prev_speed[1])
    ELSE IF Greater(current_speed, Zero) THEN Whole(ACCELERATION_THRESHOLD)
    ELSE Whole(1)

(***************************************************************************)
(* The decisions of LiquidationMonitor.check_and_transition.               *)
(***************************************************************************)
\* current_speed >= BASE_THRESHOLD_USD_PER_SEC
AboveThreshold(c, speed) == Geq(speed, Whole(c.threshold))

\* a cooldown test with <= for <
CooldownBlocksInclusive(c, sent, now) == ~IsNone(sent) /\ now - Value(sent) <= c.cooldown

\* self.last_summary_sent and (now - self.last_summary_sent) < SUMMARY_COOLDOWN_SECONDS
CooldownBlocks(c, sent, now) == ~IsNone(sent) /\ now - Value(sent) < c.cooldown

\* an exit that does not wait for the grace period
GraceElapsedAtOnce(c, anchor, now) == now - Value(anchor) >= 0

\* (now - self.last_above_threshold_time) >= ACTIVE_IDLE_TRANSITION_GRACE_PERIOD_SECONDS
GraceElapsed(c, anchor, now) == now - Value(anchor) >= c.grace

\* an IDLE window of the one second the burst spans
EvalWindowOneSecond(c, now) ==
    IF state = "ACTIVE"
    THEN (IF ~IsNone(active_since) THEN now - Value(active_since) ELSE c.window)
    ELSE 1

\* an evaluation that queries the store whatever the state is
EvalEventsFromStore(c, now) ==
    get_liquidations_in_timeframe(store, now - c.window, now)

\* the events and the window an evaluation at `now` measures
EvalEvents(c, now) ==
    IF state = "ACTIVE" THEN active_period_events
    ELSE get_liquidations_in_timeframe(store, now - c.window, now)

\* lines 235 and 240
EvalWindow(c, now) ==
    IF state = "ACTIVE"
    THEN (IF ~IsNone(active_since) THEN now - Value(active_since) ELSE c.window)
    ELSE c.window

\* an entry to ACTIVE that starts the buffer empty
SnapshotNothing(events) == <<>>

\* line 254: list(events)
Snapshot(events) == events

\* lines 242-243: current_metrics["speed_usd_per_sec"]
EvalSpeed(c, now) == SpeedOver(EvalEvents(c, now), EvalWindow(c, now))

(***************************************************************************)
(* Initial states.                                                         *)
(***************************************************************************)
NoMetrics == calculate_liquidation_metrics(<<>>, 0)

\* check_and_transition's locals while it awaits _send_summary_notification
NoFrame ==
    [now |-> 0, current_speed |-> Zero, summary_metrics |-> NoMetrics,
     acceleration |-> Whole(1), title |-> "none", outcome |-> "none",
     sent_before |-> None]

\* history: what the last ACTIVE -> IDLE transition sent and what its period held
NoSummary ==
    [outcome |-> "none", total_count |-> 0, total_amount |-> 0,
     period_count |-> 0, period_amount |-> 0]

\* no pure call is being checked
NoCall == [fn |-> "none", args |-> <<>>]

\* LiquidationMonitor.__init__
MonitorInit ==
    /\ state = "IDLE"
    /\ active_since = None
    /\ last_summary_sent = None
    /\ last_known_speed = Zero
    /\ prev_known_speed = Zero
    /\ last_above_threshold_time = None
    /\ active_period_events = <<>>

Init ==
    /\ conf \in SmallConfigs
    /\ clock = 0
    /\ inbox = MaxMessages
    /\ store = <<>>
    /\ MonitorInit
    /\ loop_pc = "none"
    /\ wake = 0
    /\ frame = NoFrame
    /\ main_pc = "start"
    /\ db_open = FALSE
    /\ monitor_task = "none"
    /\ pending_single = 0
    /\ last_summary = NoSummary
    /\ computed_speed = None
    /\ call = NoCall
    /\ ret = None

(***************************************************************************)
(* Time.                                                                   *)
(***************************************************************************)
Connected == main_pc \in {"connected", "running"}

Tick ==
    /\ Connected
    /\ clock < MaxTime
    /\ (main_pc = "running" /\ monitor_task = "running" /\ loop_pc \in {"sleep", "backoff"})
           => clock < wake + MaxLate
    /\ clock' = clock + 1
    /\ UNCHANGED <<pure, computed_speed, conf, inbox, store, monitor, loop_pc, wake, frame, main_pc,
                   db_open, monitor_task, pending_single, last_summary>>

(***************************************************************************)
(* Ingestion: process_message, run by new_message_handler for a live       *)
(* message and by main() for each message of the fetched history.          *)
(***************************************************************************)
AmountsFor(c) == IF c = DefaultConfig THEN DefaultAmounts ELSE SmallAmounts

\* what parse_liquidation_message may return: (None, None, None), or a
\* ticker, a direction and an amount that may be 0.0
NoMatch == [ticker |-> "", direction |-> "", amount |-> 0]
Parsed(c) ==
    {NoMatch} \cup [ticker : Tickers, direction : Directions, amount : AmountsFor(c)]

\* a test that lets an amount of 0.0 through
AcceptedWithoutAmount(p) == p.ticker # "" /\ p.direction # ""

\* line 284: all([ticker, direction, amount])
Accepted(p) == p.ticker # "" /\ p.direction # "" /\ p.amount # 0

\* a handler that appends whatever the state is
BufferAfterMessageAlways(st, buffer, ev) == Append(buffer, ev)

\* lines 291-293: the buffer after a message handled in state st
BufferAfterMessage(st, buffer, ev) == IF st = "ACTIVE" THEN Append(buffer, ev) ELSE buffer

\* line 296: the handler goes on to await a single-event notification
NotifiesSingle(c, amount) == c.single > 0 /\ amount >= c.single /\ c.webhook

process_message(date, p) ==
    /\ Connected
    /\ IF Accepted(p)
       THEN LET ev == Event(date, p.ticker, p.direction, p.amount)
            IN /\ inbox > 0
               /\ NotifiesSingle(conf, p.amount) => pending_single < MaxPending
               /\ inbox' = inbox - 1
               /\ store' = add_liquidation(store, ev)
               /\ active_period_events' = BufferAfterMessage(state, active_period_events, ev)
               /\ pending_single' =
                      IF NotifiesSingle(conf, p.amount) THEN pending_single + 1
                      ELSE pending_single
       ELSE UNCHANGED <<inbox, store, active_period_events, pending_single>>
    /\ UNCHANGED <<pure, computed_speed, conf, clock, state, active_since, last_summary_sent,
                   last_known_speed, prev_known_speed, last_above_threshold_time,
                   loop_pc, wake, frame, main_pc, db_open, monitor_task, last_summary>>

\* add_liquidation raises (the transaction rolls back); line 300 logs it
ProcessMessageStoreError ==
    /\ Connected
    /\ UNCHANGED vars

\* _send_single_event_notification returns, its post sent or failed
SingleNotificationDone ==
    /\ Connected
    /\ pending_single > 0
    /\ pending_single' = pending_single - 1
    /\ UNCHANGED <<pure, computed_speed, conf, clock, inbox, store, monitor, loop_pc, wake, frame,
                   main_pc, db_open, monitor_task, last_summary>>

Ingest ==
    \/ \E date \in 0..MaxTime, p \in Parsed(conf) :
           /\ clock - MaxLag <= date /\ date <= clock
           /\ process_message(date, p)
    \/ ProcessMessageStoreError
    \/ SingleNotificationDone

(***************************************************************************)
(* The polling task: monitor_loop and LiquidationMonitor.check_and_transition. *)
(* loop_pc: "sleep" and "backoff" are the two asyncio.sleep calls (a new   *)
(* task starts as a sleep that is already over), "sending" is the await of *)
(* the post inside _send_summary_notification, "resume" is the return from *)
(* it (the session's close may suspend once more before line 270 runs).    *)
(***************************************************************************)
Polling == main_pc = "running" /\ monitor_task = "running"

\* the sleep is over and the loop calls check_and_transition; now = clock
Due == Polling /\ loop_pc \in {"sleep", "backoff"} /\ clock >= wake

\* check_and_transition returned; line 307
SleepInterval ==
    /\ loop_pc' = "sleep"
    /\ wake' = clock + conf.interval

\* an error sleep as long as the normal one
SleepBackoffSingle ==
    /\ loop_pc' = "backoff"
    /\ wake' = clock + conf.interval

\* an exception reached line 308; line 310
SleepBackoff ==
    /\ loop_pc' = "backoff"
    /\ wake' = clock + 2 * conf.interval

\* lines 270-274 then line 278: the reset sets last_known_speed to 0.0 and
\* the statement that ends the ACTIVE branch sets it to current_speed
ExitKnownSpeed(current_speed) == current_speed

\* lines 270-278
ResetToIdle(current_speed) ==
    /\ state' = "IDLE"
    /\ active_since' = None
    /\ active_period_events' = <<>>
    /\ last_known_speed' = ExitKnownSpeed(current_speed)
    /\ prev_known_speed' = Zero
    /\ UNCHANGED last_above_threshold_time

RecordSummary(metrics, outcome) ==
    last_summary' =
        [outcome |-> outcome,
         total_count |-> metrics.total_count,
         total_amount |-> metrics.total_amount,
         period_count |-> Len(active_period_events),
         period_amount |-> SumAmounts(active_period_events)]

\* IDLE, speed below the threshold: line 258 only
EvalIdleBelow ==
    /\ Due /\ state = "IDLE"
    /\ computed_speed' = Some(EvalSpeed(conf, clock))
    /\ ~AboveThreshold(conf, EvalSpeed(conf, clock))
    /\ last_known_speed' = EvalSpeed(conf, clock)
    /\ SleepInterval
    /\ UNCHANGED <<pure, conf, clock, inbox, store, state, active_since, last_summary_sent,
                   prev_known_speed, last_above_threshold_time, active_period_events,
                   frame, main_pc, db_open, monitor_task, pending_single, last_summary>>

\* IDLE, speed at the threshold, inside the cooldown: the return of line 250
EvalIdleCooldown ==
    /\ Due /\ state = "IDLE"
    /\ computed_speed' = Some(EvalSpeed(conf, clock))
    /\ AboveThreshold(conf, EvalSpeed(conf, clock))
    /\ CooldownBlocks(conf, last_summary_sent, clock)
    /\ SleepInterval
    /\ UNCHANGED <<pure, conf, clock, inbox, store, monitor, frame, main_pc, db_open,
                   monitor_task, pending_single, last_summary>>

\* IDLE -> ACTIVE: lines 252-258
EvalIdleToActive ==
    /\ Due /\ state = "IDLE"
    /\ computed_speed' = Some(EvalSpeed(conf, clock))
    /\ AboveThreshold(conf, EvalSpeed(conf, clock))
    /\ ~CooldownBlocks(conf, last_summary_sent, clock)
    /\ state' = "ACTIVE"
    /\ active_since' = Some(clock)
    /\ active_period_events' = Snapshot(EvalEvents(conf, clock))
    /\ prev_known_speed' = last_known_speed
    /\ last_above_threshold_time' = Some(clock)
    /\ last_known_speed' = EvalSpeed(conf, clock)
    /\ SleepInterval
    /\ UNCHANGED <<pure, conf, clock, inbox, store, last_summary_sent, frame, main_pc,
                   db_open, monitor_task, pending_single, last_summary>>

\* the store query of line 239 raises
EvalRaises ==
    /\ Due /\ state = "IDLE"
    /\ SleepBackoff
    /\ UNCHANGED <<pure, computed_speed, conf, clock, inbox, store, monitor, frame, main_pc, db_open,
                   monitor_task, pending_single, last_summary>>

\* ACTIVE, speed at the threshold: lines 277-278
EvalActiveAbove ==
    /\ Due /\ state = "ACTIVE"
    /\ computed_speed' = Some(EvalSpeed(conf, clock))
    /\ AboveThreshold(conf, EvalSpeed(conf, clock))
    /\ last_above_threshold_time' = Some(clock)
    /\ last_known_speed' = EvalSpeed(conf, clock)
    /\ SleepInterval
    /\ UNCHANGED <<pure, conf, clock, inbox, store, state, active_since, last_summary_sent,
                   prev_known_speed, active_period_events, frame, main_pc, db_open,
                   monitor_task, pending_single, last_summary>>

\* a below-threshold evaluation inside the grace period that restarts it
EvalActiveInGraceRefreshes ==
    /\ Due /\ state = "ACTIVE"
    /\ computed_speed' = Some(EvalSpeed(conf, clock))
    /\ ~AboveThreshold(conf, EvalSpeed(conf, clock))
    /\ ~GraceElapsed(conf, last_above_threshold_time, clock)
    /\ last_above_threshold_time' = Some(clock)
    /\ last_known_speed' = EvalSpeed(conf, clock)
    /\ SleepInterval
    /\ UNCHANGED <<pure, conf, clock, inbox, store, state, active_since,
                   last_summary_sent, prev_known_speed, active_period_events,
                   frame, main_pc, db_open, monitor_task, pending_single, last_summary>>

\* ACTIVE, speed below the threshold, inside the grace period: line 278 only
EvalActiveInGrace ==
    /\ Due /\ state = "ACTIVE"
    /\ computed_speed' = Some(EvalSpeed(conf, clock))
    /\ ~AboveThreshold(conf, EvalSpeed(conf, clock))
    /\ ~GraceElapsed(conf, last_above_threshold_time, clock)
    /\ last_known_speed' = EvalSpeed(conf, clock)
    /\ SleepInterval
    /\ UNCHANGED <<pure, conf, clock, inbox, store, state, active_since, last_summary_sent,
                   prev_known_speed, last_above_threshold_time, active_period_events,
                   frame, main_pc, db_open, monitor_task, pending_single, last_summary>>

\* a summary that measures the period's amount over one second
SummaryMetricsPerSecond(now) ==
    calculate_liquidation_metrics(active_period_events, 1)

\* the summary of line 265
SummaryMetrics(now) ==
    calculate_liquidation_metrics(active_period_events, now - Value(active_since))

\* line 266
SummaryAcceleration(now) ==
    calculate_acceleration(SummaryMetrics(now).speed_usd_per_sec, prev_known_speed)

\* lines 193-195: the title of the summary
SummaryTitle(c, metrics, acceleration) ==
    IF /\ Geq(acceleration, Whole(ACCELERATION_THRESHOLD))
       /\ Geq(metrics.speed_usd_per_sec, Whole(c.threshold))
    THEN "CRITICAL LIQUIDATION SPIKE"
    ELSE "High Liquidation Activity"

\* ACTIVE -> IDLE with DISCORD_WEBHOOK_URL unset: line 192 returns at once,
\* nothing suspends, lines 265-278 run as one step
EvalActiveExitNoWebhook ==
    /\ Due /\ state = "ACTIVE"
    /\ computed_speed' = Some(EvalSpeed(conf, clock))
    /\ ~AboveThreshold(conf, EvalSpeed(conf, clock))
    /\ GraceElapsed(conf, last_above_threshold_time, clock)
    /\ ~conf.webhook
    /\ ResetToIdle(EvalSpeed(conf, clock))
    /\ RecordSummary(SummaryMetrics(clock), "skipped")
    /\ SleepInterval
    /\ UNCHANGED <<pure, conf, clock, inbox, store, last_summary_sent, frame, main_pc,
                   db_open, monitor_task, pending_single>>

\* ACTIVE, the exit is decided: lines 265-268 up to the await of the post
EvalActiveExitSend ==
    /\ Due /\ state = "ACTIVE"
    /\ computed_speed' = Some(EvalSpeed(conf, clock))
    /\ ~AboveThreshold(conf, EvalSpeed(conf, clock))
    /\ GraceElapsed(conf, last_above_threshold_time, clock)
    /\ conf.webhook
    /\ frame' = [now |-> clock,
                 current_speed |-> EvalSpeed(conf, clock),
                 summary_metrics |-> SummaryMetrics(clock),
                 acceleration |-> SummaryAcceleration(clock),
                 title |-> SummaryTitle(conf, SummaryMetrics(clock),
                                        SummaryAcceleration(clock)),
                 outcome |-> "pending",
                 sent_before |-> last_summary_sent]
    /\ loop_pc' = "sending"
    /\ UNCHANGED <<pure, conf, clock, inbox, store, monitor, wake, main_pc, db_open,
                   monitor_task, pending_single, last_summary>>

\* the post succeeded: lines 222-224
SendOk ==
    /\ Polling /\ loop_pc = "sending"
    /\ last_summary_sent' = Some(clock)
    /\ frame' = [frame EXCEPT !.outcome = "ok"]
    /\ loop_pc' = "resume"
    /\ UNCHANGED <<pure, computed_speed, conf, clock, inbox, store, state, active_since, last_known_speed,
                   prev_known_speed, last_above_threshold_time, active_period_events,
                   wake, main_pc, db_open, monitor_task, pending_single, last_summary>>

\* a failed post that still stamps last_summary_sent
SendClientErrorStamps ==
    /\ Polling /\ loop_pc = "sending"
    /\ last_summary_sent' = Some(clock)
    /\ frame' = [frame EXCEPT !.outcome = "client_error"]
    /\ loop_pc' = "resume"
    /\ UNCHANGED <<pure, computed_speed, conf, clock, inbox, store, state, active_since, last_known_speed,
                   prev_known_speed, last_above_threshold_time, active_period_events,
                   wake, main_pc, db_open, monitor_task, pending_single, last_summary>>

\* the post failed with an aiohttp.ClientError: lines 225-226
SendClientError ==
    /\ Polling /\ loop_pc = "sending"
    /\ frame' = [frame EXCEPT !.outcome = "client_error"]
    /\ loop_pc' = "resume"
    /\ UNCHANGED <<pure, computed_speed, conf, clock, inbox, store, monitor, wake, main_pc, db_open,
                   monitor_task, pending_single, last_summary>>

\* the post raised something else (asyncio.TimeoutError): nothing catches it
\* before line 308
SendRaises ==
    /\ Polling /\ loop_pc = "sending"
    /\ frame' = NoFrame
    /\ SleepBackoff
    /\ UNCHANGED <<pure, computed_speed, conf, clock, inbox, store, monitor, main_pc, db_open,
                   monitor_task, pending_single, last_summary>>

\* _send_summary_notification returned: lines 270-278, then line 307
EvalFinishExit ==
    /\ Polling /\ loop_pc = "resume"
    /\ ResetToIdle(frame.current_speed)
    /\ RecordSummary(frame.summary_metrics, frame.outcome)
    /\ frame' = NoFrame
    /\ SleepInterval
    /\ UNCHANGED <<pure, computed_speed, conf, clock, inbox, store, last_summary_sent, main_pc, db_open,
                   monitor_task, pending_single>>

check_and_transition ==
    \/ EvalIdleBelow
    \/ EvalIdleCooldown
    \/ EvalIdleToActive
    \/ EvalRaises
    \/ EvalActiveAbove
    \/ EvalActiveInGrace
    \/ EvalActiveExitNoWebhook
    \/ EvalActiveExitSend
    \/ SendOk
    \/ SendClientError
    \/ SendRaises
    \/ EvalFinishExit

monitor_loop == check_and_transition

(***************************************************************************)
(* main(): lines 312-352.  main_pc: "start", "opened" (sqlite3.connect     *)
(* returned), "db_ready" (init_db returned), "try" (the client is          *)
(* constructed, the try block is entered), "connected" (the client is      *)
(* started: get_entity, the history), "running" (the polling task is       *)
(* created, run_until_disconnected is awaited), "exited".                  *)
(***************************************************************************)
MainUnchanged ==
    UNCHANGED <<pure, computed_speed, conf, clock, inbox, store, monitor, loop_pc, wake, frame,
                pending_single, last_summary>>

\* lines 347-352
Finally ==
    /\ monitor_task' = IF monitor_task = "running" THEN "cancelled" ELSE monitor_task
    /\ db_open' = FALSE
    /\ main_pc' = "exited"

\* an exception leaves main() outside the try block: no finally runs
Propagate ==
    /\ main_pc' = "exited"
    /\ UNCHANGED <<db_open, monitor_task>>

\* lines 313-315
MainMissingConfig ==
    /\ main_pc = "start"
    /\ Propagate
    /\ MainUnchanged

\* line 318
MainOpenDb ==
    /\ main_pc = "start"
    /\ main_pc' = "opened"
    /\ db_open' = TRUE
    /\ UNCHANGED monitor_task
    /\ MainUnchanged

\* line 319
MainInitDb ==
    /\ main_pc = "opened"
    /\ main_pc' = "db_ready"
    /\ UNCHANGED <<db_open, monitor_task>>
    /\ MainUnchanged

MainInitDbRaises ==
    /\ main_pc = "opened"
    /\ Propagate
    /\ MainUnchanged

\* line 321
MainClient ==
    /\ main_pc = "db_ready"
    /\ main_pc' = "try"
    /\ UNCHANGED <<db_open, monitor_task>>
    /\ MainUnchanged

\* line 321: int(API_ID) or TelegramClient(...) raises
MainClientRaises ==
    /\ main_pc = "db_ready"
    /\ Propagate
    /\ MainUnchanged

\* line 330
MainStart ==
    /\ main_pc = "try"
    /\ main_pc' = "connected"
    /\ UNCHANGED <<db_open, monitor_task>>
    /\ MainUnchanged

MainStartRaises ==
    /\ main_pc = "try"
    /\ Finally
    /\ MainUnchanged

\* line 333: get_entity raises
MainGetEntityRaises ==
    /\ main_pc = "connected"
    /\ Finally
    /\ MainUnchanged

\* line 344
MainCreateTask ==
    /\ main_pc = "connected"
    /\ main_pc' = "running"
    /\ monitor_task' = "running"
    /\ loop_pc' = "sleep"
    /\ wake' = clock
    /\ UNCHANGED <<pure, computed_speed, conf, clock, inbox, store, monitor, frame, db_open,
                   pending_single, last_summary>>

\* line 346 returns or raises
MainDisconnect ==
    /\ main_pc = "running"
    /\ Finally
    /\ MainUnchanged

main ==
    \/ MainMissingConfig
    \/ MainOpenDb
    \/ MainInitDb
    \/ MainInitDbRaises
    \/ MainClient
    \/ MainClientRaises
    \/ MainStart
    \/ MainStartRaises
    \/ MainGetEntityRaises
    \/ MainCreateTask
    \/ MainDisconnect

Next == Tick \/ Ingest \/ monitor_loop \/ main

Spec == Init /\ [][Next]_vars

\* the event loop resumes a task whose sleep or post is over, and time passes
FairSpec == Spec /\ WF_vars(Tick) /\ WF_vars(monitor_loop)

(***************************************************************************)
(* The default configuration: the monitor is started, the store is empty,  *)
(* the polling task sleeps; events arrive and the next evaluation runs.    *)
(***************************************************************************)
DefaultInit ==
    /\ conf = DefaultConfig
    /\ clock = 0
    /\ inbox = MaxMessages
    /\ store = <<>>
    /\ MonitorInit
    /\ loop_pc = "sleep"
    /\ wake \in 0..MaxTime
    /\ frame = NoFrame
    /\ main_pc = "running"
    /\ db_open = TRUE
    /\ monitor_task = "running"
    /\ pending_single = 0
    /\ last_summary = NoSummary
    /\ computed_speed = None
    /\ call = NoCall
    /\ ret = None

DefaultNext ==
    \/ Tick
    \/ \E date \in 0..MaxTime, p \in Parsed(conf) :
           /\ clock - MaxLag <= date /\ date <= clock
           /\ process_message(date, p)
    \/ EvalIdleBelow
    \/ EvalIdleToActive

DefaultSpec == DefaultInit /\ [][DefaultNext]_vars

(***************************************************************************)
(* The pure functions called alone, on arguments drawn from bounded sets:  *)
(* calculate_acceleration(current_speed, prev_speed) and                   *)
(* calculate_liquidation_metrics(events, window_seconds).                  *)
(***************************************************************************)
\* speeds n / d USD per second, d up to MaxDenominator
MaxDenominator == 3
SpeedNumerators == {0, 100, 500, 501, 600, 1000, 1200, 1503}
SampleSpeeds == {Div(n, d) : n \in SpeedNumerators, d \in 1..MaxDenominator}

\* event sequences of up to MaxEvents events, as the store and the buffer
\* hold them: a direction the pattern of line 128 matches, an amount > 0
MaxEvents == 3
SampleEvents ==
    [timestamp : {0}, ticker : Tickers, direction : {"Long", "Short"}, amount : {1, 5}]
SampleSequences == UNION {[1..n -> SampleEvents] : n \in 0..MaxEvents}
SampleWindows == {0, 1, ANALYSIS_WINDOW_SECONDS}

PureCalls ==
    [fn : {"calculate_acceleration"}, args : SampleSpeeds \X SampleSpeeds]
    \cup [fn : {"calculate_liquidation_metrics"}, args : SampleSequences \X SampleWindows]

PureInit ==
    /\ conf = DefaultConfig
    /\ clock = 0
    /\ inbox = 0
    /\ store = <<>>
    /\ MonitorInit
    /\ loop_pc = "none"
    /\ wake = 0
    /\ frame = NoFrame
    /\ main_pc = "start"
    /\ db_open = FALSE
    /\ monitor_task = "none"
    /\ pending_single = 0
    /\ last_summary = NoSummary
    /\ computed_speed = None
    /\ call \in PureCalls
    /\ ret = None

PureUnchanged ==
    UNCHANGED <<conf, clock, inbox, store, monitor, loop_pc, wake, frame, main_pc,
                db_open, monitor_task, pending_single, last_summary, computed_speed,
                call>>

CallAcceleration ==
    /\ call.fn = "calculate_acceleration"
    /\ IsNone(ret)
    /\ ret' = Some(calculate_acceleration(call.args[1], call.args[2]))
    /\ PureUnchanged

CallMetrics ==
    /\ call.fn = "calculate_liquidation_metrics"
    /\ IsNone(ret)
    /\ ret' = Some(calculate_liquidation_metrics(call.args[1], call.args[2]))
    /\ PureUnchanged

PureNext == CallAcceleration \/ CallMetrics

PureSpec == PureInit /\ [][PureNext]_vars

(***************************************************************************)
(* What the claims speak of, stated on the state alone.                    *)
(***************************************************************************)
\* USD in the store dated in [lo, hi]
RECURSIVE TotalOver(_, _)
TotalOver(rows, indices) ==
    IF indices = {} THEN 0
    ELSE LET i == CHOOSE k \in indices : TRUE
         IN rows[i].amount + TotalOver(rows, indices \ {i})

StoreTotalBetween(lo, hi) ==
    TotalOver(store, {i \in 1..Len(store) :
                          lo <= store[i].timestamp /\ store[i].timestamp <= hi})

BufferTotal == TotalOver(active_period_events, 1..Len(active_period_events))

\* the polling task runs check_and_transition in this step and it returns
EvaluationReturns == Due /\ wake' # wake /\ loop_pc' = "sleep"

\* an evaluation that started in IDLE measured a speed at the threshold
IdleSpeedAtThreshold ==
    StoreTotalBetween(clock - conf.window, clock) >= conf.threshold * conf.window

\* an evaluation that started in ACTIVE measured a speed at the threshold
ActiveSpeedAtThreshold ==
    /\ clock > Value(active_since)
    /\ BufferTotal >= conf.threshold * (clock - Value(active_since))

CooldownOver ==
    \/ last_summary_sent = None
    \/ clock - Value(last_summary_sent) >= conf.cooldown

\* C1: an evaluation that starts in IDLE moves the monitor to ACTIVE exactly
\* when its speed is at least the threshold and no summary was ever sent or
\* the cooldown has passed since the last one; so no ACTIVE period begins
\* less than the cooldown after the last sent summary.
C1_IdleToActive ==
    [][/\ (EvaluationReturns /\ state = "IDLE")
            => (state' = "ACTIVE" <=> (IdleSpeedAtThreshold /\ CooldownOver))
       /\ (state = "IDLE" /\ state' = "ACTIVE")
            => /\ EvaluationReturns
               /\ active_since' = Some(clock)
               /\ last_summary_sent' = last_summary_sent
               /\ last_summary_sent # None
                    => Value(active_since') - Value(last_summary_sent) >= conf.cooldown
      ]_vars

\* an ACTIVE period that began once the cooldown after a summary was over
C1_Witness ==
    /\ state = "ACTIVE"
    /\ last_summary_sent # None
    /\ Value(active_since) - Value(last_summary_sent) >= conf.cooldown

\* the evaluation that decides the return to IDLE: it starts the summary's
\* send or, with no webhook, resets at once
ExitDecided == Due /\ state = "ACTIVE" /\ (loop_pc' = "sending" \/ state' = "IDLE")

\* C2: the monitor leaves ACTIVE only in an evaluation whose speed is below
\* the threshold and that comes at least the grace period after the anchor;
\* the anchor is set to now on entry to ACTIVE and by every ACTIVE
\* evaluation at the threshold, and by nothing else; a below-threshold
\* evaluation inside the grace period leaves the monitor ACTIVE.
C2_ActiveToIdle ==
    [][/\ ExitDecided
            => /\ ~ActiveSpeedAtThreshold
               /\ clock - Value(last_above_threshold_time) >= conf.grace
       /\ (state = "ACTIVE" /\ state' = "IDLE")
            => (ExitDecided \/ (loop_pc = "resume" /\ frame.outcome # "none"))
       /\ (state = "IDLE" /\ state' = "ACTIVE")
            => last_above_threshold_time' = Some(clock)
       /\ (EvaluationReturns /\ state = "ACTIVE" /\ ActiveSpeedAtThreshold)
            => (state' = "ACTIVE" /\ last_above_threshold_time' = Some(clock))
       /\ last_above_threshold_time' # last_above_threshold_time
            => \/ state = "IDLE" /\ state' = "ACTIVE"
               \/ EvaluationReturns /\ state = "ACTIVE" /\ ActiveSpeedAtThreshold
       /\ (EvaluationReturns /\ state = "ACTIVE" /\ ~ActiveSpeedAtThreshold
             /\ clock - Value(last_above_threshold_time) < conf.grace)
            => state' = "ACTIVE"
      ]_vars

\* ACTIVE after an evaluation that found the speed below the threshold
C2_Witness ==
    /\ state = "ACTIVE"
    /\ loop_pc = "sleep"
    /\ Less(last_known_speed, Whole(conf.threshold))

\* C3: the summary of an ACTIVE -> IDLE transition counts every event of
\* the period: those snapshotted at entry and those appended while ACTIVE.
C3_SummaryCoversPeriod ==
    /\ last_summary.total_count = last_summary.period_count
    /\ last_summary.total_amount = last_summary.period_amount

\* C4: while the summary's send is awaited, ingestion never meets the
\* monitor with the summary computed and the state still ACTIVE.
C4_SendOutsideTransition ==
    [][(loop_pc = "sending" /\ inbox' = inbox - 1) => state = "IDLE"]_vars

\* the rows of `rows` at the indices K, in id order
RowsAt(rows, K) ==
    [n \in 1..Cardinality(K) |->
        rows[CHOOSE k \in K : Cardinality({j \in K : j <= k}) = n]]

\* `kept` is the HistoryLimit most recent rows of `rows` by (timestamp, id)
IsMostRecent(rows, kept) ==
    \E K \in SUBSET (1..Len(rows)) :
        /\ Cardinality(K) = IF Len(rows) < HistoryLimit THEN Len(rows) ELSE HistoryLimit
        /\ \A i \in K, j \in (1..Len(rows)) \ K :
               \/ rows[i].timestamp > rows[j].timestamp
               \/ rows[i].timestamp = rows[j].timestamp /\ i > j
        /\ kept = RowsAt(rows, K)

\* the events a handled message may store
Arrivals ==
    {Event(date, p.ticker, p.direction, p.amount) :
        date \in {d \in 0..MaxTime : clock - MaxLag <= d /\ d <= clock},
        p \in {q \in Parsed(conf) : Accepted(q)}}

\* C5: the store never holds more than the limit, and every add_liquidation
\* leaves exactly the limit's most recent events, by (timestamp, id), of
\* the previous rows and the new one, in one step.
C5_StoreBounded ==
    /\ [](Len(store) <= HistoryLimit)
    /\ [][inbox' = inbox - 1
            => \E ev \in Arrivals : IsMostRecent(Append(store, ev), store')]_vars

\* more events were stored than are kept, and the rows are not in time order
C5_Witness ==
    /\ MaxMessages - inbox > HistoryLimit
    /\ Len(store) = HistoryLimit
    /\ \E i \in 1..Len(store) - 1 : store[i].timestamp > store[i + 1].timestamp

\* C6: a handled message is added to the store, is appended to the buffer
\* exactly when the state is ACTIVE, and changes no other field of the
\* monitor, with or without a single-event notification.
C6_IngestionFrame ==
    [][/\ inbox' = inbox - 1
            => /\ \E ev \in Arrivals :
                      /\ IsMostRecent(Append(store, ev), store')
                      /\ active_period_events' =
                             IF state = "ACTIVE" THEN active_period_events \o <<ev>>
                             ELSE active_period_events
               /\ UNCHANGED <<state, active_since, last_summary_sent, last_known_speed,
                              prev_known_speed, last_above_threshold_time>>
       /\ pending_single' < pending_single => UNCHANGED monitor
      ]_vars

\* ACTIVE, an event appended after the entry, its notification in flight
C6_Witness ==
    /\ state = "ACTIVE"
    /\ pending_single > 0
    /\ \E i \in 1..Len(active_period_events) :
           active_period_events[i].timestamp > Value(active_since)

C8_LoopContinues ==
    /\ [][(loop_pc' = "backoff" /\ (loop_pc # "backoff" \/ wake' # wake))
            => /\ wake' = clock + 2 * conf.interval
               /\ monitor_task' = "running"]_vars
    /\ [][(loop_pc = "backoff" /\ (loop_pc' # "backoff" \/ wake' # wake))
            => clock >= wake]_vars
    /\ [][(monitor_task = "running" /\ monitor_task' # "running")
            => (monitor_task' = "cancelled" /\ main_pc' = "exited")]_vars
    /\ (Polling /\ loop_pc = "backoff" /\ wake <= MaxTime)
           ~> (~Polling \/ loop_pc # "backoff" \/ wake > MaxTime)

\* the loop in its error sleep, the next evaluation still to come
C8_Witness == Polling /\ loop_pc = "backoff" /\ wake <= MaxTime

\* the store holds 25,000 USD dated within one second
BurstOf25000 ==
    /\ store # <<>>
    /\ StoreTotalBetween(0, MaxTime) = 25000
    /\ \A i, j \in 1..Len(store) : store[i].timestamp - store[j].timestamp <= 1

\* C9 as claimed: under the default configuration, from IDLE with no summary
\* sent, the evaluation that follows 25,000 USD of events dated within one
\* second moves the monitor to ACTIVE.
C9_BurstActivates ==
    [][(EvaluationReturns /\ state = "IDLE" /\ last_summary_sent = None
          /\ conf = DefaultConfig /\ BurstOf25000)
            => state' = "ACTIVE"]_vars

\* C9 amended: under the default configuration, from IDLE with no summary
\* sent, an evaluation moves the monitor to ACTIVE exactly when the events
\* of its 300-second window total at least 20000 * 300 USD; after 25,000 USD
\* dated within one second the monitor stays IDLE.
C9_BurstBelowWindowThreshold ==
    [][(EvaluationReturns /\ state = "IDLE" /\ last_summary_sent = None
          /\ conf = DefaultConfig)
            => /\ state' = "ACTIVE"
                    <=> StoreTotalBetween(clock - ANALYSIS_WINDOW_SECONDS, clock)
                            >= BASE_THRESHOLD_USD_PER_SEC * ANALYSIS_WINDOW_SECONDS
               /\ BurstOf25000 => state' = "IDLE"]_vars

\* IDLE after the evaluation of a 25,000 USD burst: speed 25000 / 300
C9_Witness ==
    /\ conf = DefaultConfig
    /\ state = "IDLE"
    /\ BurstOf25000
    /\ last_known_speed = <<250, 3>>

\* C10: once main() has exited, the polling task is not running and the
\* store connection is closed.
C10_ExitReleases ==
    main_pc = "exited" => (~db_open /\ monitor_task # "running")

\* calculate_acceleration returned for the call being checked
AccelerationReturned == call.fn = "calculate_acceleration" /\ ~IsNone(ret)

\* C11: calculate_acceleration(current, prev) is current / prev when
\* prev > 500, else ACCELERATION_THRESHOLD when current > 0, else 1.0;
\* (1200, 600) gives 2.0, (100, 100) the cap and (0, 0) gives 1.0.
C11_Acceleration ==
    AccelerationReturned =>
        LET current == call.args[1]
            prev == call.args[2]
            r == Value(ret)
        IN /\ prev[1] > 500 * prev[2]
                  => r[1] * prev[1] * current[2] = r[2] * current[1] * prev[2]
           /\ (prev[1] <= 500 * prev[2] /\ current[1] > 0)
                  => r = <<ACCELERATION_THRESHOLD, 1>>
           /\ (prev[1] <= 500 * prev[2] /\ current[1] = 0) => r = <<1, 1>>
           /\ call.args = <<(<<1200, 1>>), (<<600, 1>>)>> => r = <<2, 1>>
           /\ call.args = <<(<<100, 1>>), (<<100, 1>>)>> => r = <<ACCELERATION_THRESHOLD, 1>>
           /\ call.args = <<(<<0, 1>>), (<<0, 1>>)>> => r = <<1, 1>>

\* the ratio branch was taken for (1200, 600)
C11_Witness ==
    /\ AccelerationReturned
    /\ call.args = <<(<<1200, 1>>), (<<600, 1>>)>>
    /\ ret = Some(<<2, 1>>)

\* calculate_liquidation_metrics returned for the call being checked
MetricsReturned == call.fn = "calculate_liquidation_metrics" /\ ~IsNone(ret)

\* the summed amount of the Long and Short events of a sequence
RECURSIVE DirectionalAmount(_)
DirectionalAmount(events) ==
    IF events = <<>> THEN 0
    ELSE (IF Head(events).direction \in {"Long", "Short"} THEN Head(events).amount ELSE 0)
         + DirectionalAmount(Tail(events))

\* C12: the metrics of every event sequence have long_bias + short_bias = 1
\* when the summed amount of its Long and Short events is positive, and
\* long_bias = short_bias = 0 when it is not (the empty sequence).
C12_BiasesComplement ==
    MetricsReturned =>
        LET long_bias == Value(ret).long_bias
            short_bias == Value(ret).short_bias
        IN IF DirectionalAmount(call.args[1]) > 0
           THEN long_bias[1] * short_bias[2] + short_bias[1] * long_bias[2]
                    = long_bias[2] * short_bias[2]
           ELSE long_bias = <<0, 1>> /\ short_bias = <<0, 1>>

\* a sequence of Long and Short events whose biases are 1/6 and 5/6
C12_Witness ==
    /\ MetricsReturned
    /\ Value(ret).long_bias = <<1, 6>>
    /\ Value(ret).short_bias = <<5, 6>>

\* the speed an evaluation that starts in IDLE at `clock` computes
IdleSpeed == Div(StoreTotalBetween(clock - conf.window, clock), conf.window)

\* C13: an IDLE evaluation that finds the speed at the threshold while the
\* cooldown blocks the transition sets last_known_speed to the speed it
\* computed and changes nothing else of the monitor.
C13_BlockedEvaluationRecordsSpeed ==
    [][(EvaluationReturns /\ state = "IDLE" /\ IdleSpeedAtThreshold /\ ~CooldownOver)
          => /\ last_known_speed' = IdleSpeed
             /\ UNCHANGED <<state, active_since, last_summary_sent, prev_known_speed,
                            active_period_events>>
      ]_vars

\* C14: right after the evaluation that performs the ACTIVE -> IDLE
\* transition the monitor is fully reset: the buffer is empty, active_since
\* and last_above_threshold_time are absent, both speeds are 0.
C14_FullReset ==
    [][(state = "ACTIVE" /\ state' = "IDLE")
          => /\ active_period_events' = <<>>
             /\ active_since' = None
             /\ last_above_threshold_time' = None
             /\ last_known_speed' = <<0, 1>>
             /\ prev_known_speed' = <<0, 1>>
      ]_vars

\* C15: at every IDLE -> ACTIVE transition prev_known_speed, the baseline
\* of the acceleration, is the speed the immediately preceding evaluation
\* computed, whatever that evaluation did (cooldown-blocked ones and the
\* one that returned the monitor to IDLE included).
C15_BaselineIsPrecedingSpeed ==
    [][(state = "IDLE" /\ state' = "ACTIVE" /\ computed_speed # None)
          => prev_known_speed' = Value(computed_speed)
      ]_vars

\* the speed an evaluation that starts in ACTIVE at `clock` computes
ActiveSpeed ==
    IF clock > Value(active_since)
    THEN Div(BufferTotal, clock - Value(active_since)) ELSE <<0, 1>>

\* the polling task runs check_and_transition in this step and it gets as
\* far as computing current_speed
EvaluationComputes == EvaluationReturns \/ (Due /\ loop_pc' = "sending")

\* C16: the speed of an evaluation that starts in IDLE is the store's total
\* over [now - window, now] divided by the window; the speed of one that
\* starts in ACTIVE is the buffer's total divided by the seconds since
\* active_since (0 when none has passed), whatever the store holds.
C16_SpeedByState ==
    [][EvaluationComputes
          => computed_speed' = Some(IF state = "IDLE" THEN IdleSpeed ELSE ActiveSpeed)
      ]_vars

\* an ACTIVE evaluation has just measured a buffer that holds more events
\* than the trimmed store
C16_Witness ==
    /\ state = "ACTIVE"
    /\ loop_pc = "sleep" /\ wake = clock + conf.interval
    /\ clock > Value(active_since)
    /\ Len(active_period_events) > Len(store)
    /\ computed_speed = Some(Div(BufferTotal, clock - Value(active_since)))
    /\ last_known_speed = Div(BufferTotal, clock - Value(active_since))

\* how many times the event e occurs in a sequence
Occurrences(events, e) == Cardinality({i \in 1..Len(events) : events[i] = e})

\* the store's rows dated in [lo, hi]
StoreRowsBetween(lo, hi) ==
    {i \in 1..Len(store) : lo <= store[i].timestamp /\ store[i].timestamp <= hi}

\* C17: the evaluation that performs IDLE -> ACTIVE at `now` leaves in the
\* buffer exactly the store's events of [now - window, now], in timestamp
\* order, and sets active_since and last_above_threshold_time to now; no
\* later step of an ACTIVE period, a trim of the store included, removes
\* an event from the buffer.
C17_EntrySnapshot ==
    [][/\ (state = "IDLE" /\ state' = "ACTIVE")
            => LET rows == StoreRowsBetween(clock - conf.window, clock)
                   buffer == active_period_events'
               IN /\ Len(buffer) = Cardinality(rows)
                  /\ \A i \in rows :
                         Occurrences(buffer, store[i])
                             = Cardinality({j \in rows : store[j] = store[i]})
                  /\ \A i, j \in 1..Len(buffer) :
                         i < j => buffer[i].timestamp <= buffer[j].timestamp
                  /\ active_since' = Some(clock)
                  /\ last_above_threshold_time' = Some(clock)
       /\ (state = "ACTIVE" /\ state' = "ACTIVE")
            => /\ Len(active_period_events') >= Len(active_period_events)
               /\ SubSeq(active_period_events', 1, Len(active_period_events))
                      = active_period_events
      ]_vars

\* ACTIVE: the event snapshotted at entry is still in the buffer after the
\* store's trim deleted its row
C17_Witness ==
    /\ state = "ACTIVE"
    /\ Len(store) = HistoryLimit
    /\ Len(active_period_events) > HistoryLimit
    /\ active_period_events[1].timestamp <= Value(active_since)
    /\ \A i \in 1..Len(store) : store[i] # active_period_events[1]

\* the summary's post is being made or has just returned
SummaryInFlight == loop_pc \in {"sending", "resume"}

\* C18: every summary notification reports a speed strictly below the
\* threshold, so none carries the escalated (CRITICAL) title, whatever the
\* acceleration is.
C18_SummaryBelowThreshold ==
    SummaryInFlight =>
        LET speed == frame.summary_metrics.speed_usd_per_sec
        IN /\ speed[1] < conf.threshold * speed[2]
           /\ frame.title = "High Liquidation Activity"

\* a summary being sent whose acceleration is at the cap and whose speed
\* is positive
C18_Witness ==
    /\ loop_pc = "sending"
    /\ frame.acceleration[1] >= ACCELERATION_THRESHOLD * frame.acceleration[2]
    /\ frame.summary_metrics.speed_usd_per_sec[1] > 0
    /\ frame.title = "High Liquidation Activity"

\* an event as parse_liquidation_message gives it for a liquidation
WellFormed(e) ==
    e.ticker # "" /\ e.direction \in {"Long", "Short"} /\ e.amount > 0

\* C19: between steps, IDLE has an empty buffer and no active_since;
\* ACTIVE has active_since and last_above_threshold_time set, the first
\* not after the second; every event of the store and of the buffer has a
\* non-empty ticker, direction Long or Short and a positive amount.
C19_StateInvariant ==
    /\ state = "IDLE" => (active_period_events = <<>> /\ active_since = None)
    /\ state = "ACTIVE"
          => /\ active_since # None
             /\ last_above_threshold_time # None
             /\ Value(active_since) <= Value(last_above_threshold_time)
    /\ \A i \in 1..Len(store) : WellFormed(store[i])
    /\ \A i \in 1..Len(active_period_events) : WellFormed(active_period_events[i])

\* ACTIVE with the anchor refreshed after the entry and events in the
\* store and in the buffer
C19_Witness ==
    /\ state = "ACTIVE"
    /\ active_since # None /\ last_above_threshold_time # None
    /\ Value(active_since) < Value(last_above_threshold_time)
    /\ store # <<>>
    /\ active_period_events # <<>>

\* when an ACTIVE period has decided its exit at the latest if its buffer
\* grows no more: the buffer's amount keeps the speed at the threshold for
\* BufferTotal \div threshold seconds after active_since, the grace period
\* follows the last evaluation of those, and the evaluation that comes
\* next is less than an interval (and the loop's lateness) further
ExitDeadline ==
    Value(active_since) + (BufferTotal \div conf.threshold) + conf.grace
        + (conf.interval - 1) + MaxLate

\* ACTIVE, the polling task alive, the exit due within the model's time
ActiveExitDue == state = "ACTIVE" /\ Polling /\ ExitDeadline <= MaxTime

\* IDLE again; or main() has exited, the summary's send has raised, or a
\* further event has moved the exit beyond the model's time
IdleOrExcused ==
    state = "IDLE" \/ ~Polling \/ loop_pc = "backoff" \/ ExitDeadline > MaxTime

\* C20: an ACTIVE monitor to which ingestion delivers no further event
\* returns to IDLE, provided the polling loop keeps running, time advances
\* and the summary's send returns (with success or a network error); and
\* it never returns to IDLE earlier than the grace period after it entered
\* ACTIVE.
C20_ActiveEnds ==
    /\ ActiveExitDue ~> IdleOrExcused
    /\ [][(state = "ACTIVE" /\ state' = "IDLE")
            => clock - Value(active_since) >= conf.grace]_vars

\* IDLE again after an ACTIVE period to which no event came during the
\* summary's send
C20_Witness ==
    /\ state = "IDLE"
    /\ last_summary.outcome \in {"ok", "client_error"}
    /\ last_summary.total_count = last_summary.period_count
    /\ last_above_threshold_time # None
    /\ clock - Value(last_above_threshold_time) >= conf.grace

====
